---- MODULE Spec2Model ----
(***************************************************************************)
(* State-machine model of the Chibify style converter: the UI Controller   *)
(* (src/App.tsx, in its read-only-prompt and its prompt-editable variant)  *)
(* and the Generation Adapter (src/services/geminiService.ts).             *)
(*                                                                         *)
(* Strings the code takes apart (MIME types, data-URLs, messages, model    *)
(* text) are sequences of tokens, so that startsWith, split, trim and      *)
(* includes are computed as the code computes them.                        *)
(***************************************************************************)
EXTENDS Integers, Sequences, FiniteSets, Bags, TLC

VARIABLES
    variant,       \* which App.tsx of the repository runs: "readonly" or "editable"
    apiKey,        \* process.env.API_KEY: Null when the credential is absent
    status,        \* useState<AppStatus>
    contentImage,  \* useState<string | null>
    styleImage,    \* useState<string | null>
    resultImage,   \* useState<string | null>
    errorMsg,      \* useState<string | null>
    prompt,        \* useState<string>
    readers,       \* bag of the FileReader objects still reading: the role and
                   \* the data-URL the read yields if it succeeds
    inflight,      \* bag of the calls of generateChibiStyle not yet settled
    edited,        \* history: the user has typed into the prompt textarea
    awaitFresh,    \* history: a valid content file was selected and no generation
                   \* has been started since
    saved,         \* the file the last click of the download link saved: its
                   \* href and its name, Null before the first download
    call,          \* the arguments of a call of generateChibiStyle made outside
                   \* the UI Controller
    pc,            \* where that call stands: "idle", "called", "awaiting", "done"
    wire,          \* the parts that call handed to ai.models.generateContent,
                   \* <<>> as long as nothing was sent
    response,      \* how ai.models.generateContent ended for that call
    outcome        \* how the promise of that call settled

vars == <<variant, apiKey, status, contentImage, styleImage, resultImage,
          errorMsg, prompt, readers, inflight, edited, awaitFresh, saved,
          call, pc, wire, response, outcome>>

\* the state cells of the component with what hangs on them, and the state of
\* a call of the adapter made on its own
uiVars == <<variant, status, contentImage, styleImage, resultImage, errorMsg,
            prompt, readers, inflight, edited, awaitFresh, saved>>
adapterVars == <<call, pc, wire, response, outcome>>

\* JavaScript null / undefined; no string of the program equals it
Null == <<"null">>

\* JavaScript truthiness of a string-or-null value: neither null nor ""
Truthy(x) == x /= Null /\ x /= <<>>

----------------------------------------------------------------------------
(* Bounds of the model *)

\* FileReader objects that may be reading at the same time
MaxReaders == 1

\* generateChibiStyle calls that may be outstanding at the same time
MaxInFlight == 2

----------------------------------------------------------------------------
(* AppStatus *)

IDLE == "IDLE"
UPLOADING == "UPLOADING"
GENERATING == "GENERATING"
SUCCESS == "SUCCESS"
ERROR == "ERROR"

AppStatus == {IDLE, UPLOADING, GENERATING, SUCCESS, ERROR}

----------------------------------------------------------------------------
(* Constants of the UI Controller *)

PROMPT_WITH_STYLE == <<"PROMPT_WITH_STYLE">>
PROMPT_SINGLE == <<"PROMPT_SINGLE">>

\* a prompt the user typed that is neither fixed variant
PROMPT_CUSTOM == <<"user text">>

IMAGE_PREFIX == <<"i", "m", "a", "g", "e", "/">>

\* 5 * 1024 * 1024
MAX_FILE_SIZE == 5242880

MSG_INVALID_TYPE == <<"please upload a valid image file">>
MSG_TOO_LARGE == <<"file too large, use an image under 5MB">>
MSG_READ_FAILED == <<"reading the file failed">>
MSG_NO_CONTENT == <<"please upload at least the character image">>
MSG_GENERATE_FALLBACK == <<"something went wrong during generation">>

DOWNLOAD_NAME == "chibi-style.png"

----------------------------------------------------------------------------
(* Constants of the Generation Adapter *)

\* the two markers the adapter's catch block looks for in a message
TOKEN_GEN_FAILED == "generation failed"
TOKEN_SAFETY_POLICY == "safety policy"

MSG_API_KEY_MISSING == <<"API Key is missing. Please set process.env.API_KEY.">>
MSG_EMPTY_RESPONSE == <<"API response is empty, no candidate returned">>
MSG_SAFETY == <<"due to ", TOKEN_SAFETY_POLICY, ", the model refused to generate this image">>
MSG_LIKELY_FILTERED == <<"the model generated no image, usually the input was filtered">>
MSG_NO_DATA == <<"no image data and no error explanation found in the response">>
MSG_UNAVAILABLE == <<"the image generation service is unavailable, retry later">>

PNG_DATA_URL_PREFIX == <<"data:image/png;base64", ",">>

----------------------------------------------------------------------------
(* Sequence helpers *)

\* String.prototype.startsWith
StartsWith(s, p) == Len(s) >= Len(p) /\ SubSeq(s, 1, Len(p)) = p

\* bag b with one more / one fewer copy of x
BagAdd(b, x) == b (+) SetToBag({x})
BagRemove(b, x) == b (-) SetToBag({x})

----------------------------------------------------------------------------
(* Inputs: the files a user may pick *)

TYPE_PNG == <<"i", "m", "a", "g", "e", "/", "p", "n", "g">>
TYPE_TEXT == <<"t", "e", "x", "t", "/", "p", "l", "a", "i", "n">>
TYPE_IMAGE_NO_SLASH == <<"i", "m", "a", "g", "e">>

FileTypes == {TYPE_PNG, TYPE_TEXT, TYPE_IMAGE_NO_SLASH}

\* a 2 MiB file, one of exactly 5 MiB and one a byte larger
FileSizes == {2 * 1024 * 1024, 5 * 1024 * 1024, 5 * 1024 * 1024 + 1}

\* base64 payloads of the files' bytes
FilePayloads == {"AAAA"}

Files == [type : FileTypes, size : FileSizes, payload : FilePayloads]

\* FileReader.readAsDataURL: reader.result after a successful read
ReadAsDataURL(file) == <<"data:">> \o file.type \o <<";base64", ",", file.payload>>

ImageRoles == {"content", "style"}

----------------------------------------------------------------------------
(* Generation Adapter: src/services/geminiService.ts *)

\* index of the first element of s equal to x, 0 when there is none
RECURSIVE IndexOf(_, _)
IndexOf(s, x) ==
    IF s = <<>> THEN 0
    ELSE IF Head(s) = x THEN 1
    ELSE LET r == IndexOf(Tail(s), x) IN IF r = 0 THEN 0 ELSE r + 1

\* String.prototype.split(','): the pieces between the commas, in order
RECURSIVE Split(_)
Split(s) ==
    LET i == IndexOf(s, ",") IN
    IF i = 0 THEN <<s>>
    ELSE <<SubSeq(s, 1, i - 1)>> \o Split(SubSeq(s, i + 1, Len(s)))

\* base64Str.split(',')[1] || base64Str
stripBase64Prefix(base64Str) ==
    LET pieces == Split(base64Str) IN
    IF Len(pieces) >= 2 /\ pieces[2] /= <<>> THEN pieces[2] ELSE base64Str

\* String.prototype.includes for one of the two markers
Includes(message, token) == \E i \in DOMAIN message : message[i] = token

Whitespace == {" ", "\n"}

\* String.prototype.trim
RECURSIVE TrimStart(_)
TrimStart(s) ==
    IF s /= <<>> /\ Head(s) \in Whitespace THEN TrimStart(Tail(s)) ELSE s

RECURSIVE TrimEnd(_)
TrimEnd(s) ==
    IF s /= <<>> /\ s[Len(s)] \in Whitespace
    THEN TrimEnd(SubSeq(s, 1, Len(s) - 1)) ELSE s

Trim(s) == TrimEnd(TrimStart(s))

\* msg.replace(/[backtick]/g, '')
\* the backtick character (written as a word: the lexer reserves the character)
BACKTICK == "BACKTICK"

IsNotBacktick(c) == c /= BACKTICK
RemoveBackticks(s) == SelectSeq(s, IsNotBacktick)

\* outcomes of a promise
Return(v) == [ok |-> TRUE, value |-> v]
Throw(message) == [ok |-> FALSE, value |-> message]

\* as getClient, without the check of the key
getClient_NoCheck == Return(apiKey)

\* getClient: throws when process.env.API_KEY is missing
getClient == IF ~Truthy(apiKey) THEN Throw(MSG_API_KEY_MISSING) ELSE Return(apiKey)

ImagePart(data) == [inlineData |-> data, text |-> Null]
TextPart(text) == [inlineData |-> Null, text |-> text]

\* as RequestParts, the content image pushed before the style image
RequestParts_ContentFirst(content, style, customPrompt) ==
    <<ImagePart(stripBase64Prefix(content))>>
        \o (IF Truthy(style) THEN <<ImagePart(stripBase64Prefix(style))>> ELSE <<>>)
        \o <<TextPart(customPrompt)>>

\* the ordered parts generateChibiStyle sends
RequestParts(content, style, customPrompt) ==
    (IF Truthy(style) THEN <<ImagePart(stripBase64Prefix(style))>> ELSE <<>>)
        \o <<ImagePart(stripBase64Prefix(content))>>
        \o <<TextPart(customPrompt)>>

\* index of the first part with inline image data, 0 when there is none
RECURSIVE FirstImage(_)
FirstImage(parts) ==
    IF parts = <<>> THEN 0
    ELSE IF Truthy(Head(parts).inlineData) THEN 1
    ELSE LET r == FirstImage(Tail(parts)) IN IF r = 0 THEN 0 ELSE r + 1

\* contentParts.find(p => p.text): index of the first part with text, 0 if none
RECURSIVE FirstText(_)
FirstText(parts) ==
    IF parts = <<>> THEN 0
    ELSE IF Truthy(Head(parts).text) THEN 1
    ELSE LET r == FirstText(Tail(parts)) IN IF r = 0 THEN 0 ELSE r + 1

\* as TextFailure, without the substitution for a text of code fences only
TextFailure_NoSubstitute(text) == <<TOKEN_GEN_FAILED, ": ">> \o Trim(text)

\* the message thrown for a text part found instead of an image
TextFailure(text) ==
    LET msg == Trim(text) IN
    <<TOKEN_GEN_FAILED, ": ">> \o
        (IF Len(Trim(RemoveBackticks(msg))) = 0 THEN MSG_LIKELY_FILTERED ELSE msg)

\* as ParseResponse, the text part looked for before the image scan
ParseResponse_TextFirst(api) ==
    IF api.kind = "throw" THEN Throw(api.message)
    ELSE IF api.candidates = <<>> THEN Throw(MSG_EMPTY_RESPONSE)
    ELSE LET candidate == api.candidates[1] IN
         IF candidate.finishReason = "SAFETY" THEN Throw(MSG_SAFETY)
         ELSE IF candidate.hasParts /\ FirstText(candidate.parts) /= 0
         THEN Throw(TextFailure(candidate.parts[FirstText(candidate.parts)].text))
         ELSE IF candidate.hasParts /\ FirstImage(candidate.parts) /= 0
         THEN Return(PNG_DATA_URL_PREFIX
                        \o candidate.parts[FirstImage(candidate.parts)].inlineData)
         ELSE Throw(MSG_NO_DATA)

\* as ParseResponse, the finish reason checked only after the parts
ParseResponse_SafetyLast(api) ==
    IF api.kind = "throw" THEN Throw(api.message)
    ELSE IF api.candidates = <<>> THEN Throw(MSG_EMPTY_RESPONSE)
    ELSE LET candidate == api.candidates[1] IN
         IF candidate.hasParts /\ FirstImage(candidate.parts) /= 0
         THEN Return(PNG_DATA_URL_PREFIX
                        \o candidate.parts[FirstImage(candidate.parts)].inlineData)
         ELSE IF candidate.hasParts /\ FirstText(candidate.parts) /= 0
         THEN Throw(TextFailure(candidate.parts[FirstText(candidate.parts)].text))
         ELSE IF candidate.finishReason = "SAFETY" THEN Throw(MSG_SAFETY)
         ELSE Throw(MSG_NO_DATA)

\* as ParseResponse, a candidate without image and text reported as an empty
\* response
ParseResponse_NoDataAsEmpty(api) ==
    IF api.kind = "throw" THEN Throw(api.message)
    ELSE IF api.candidates = <<>> THEN Throw(MSG_EMPTY_RESPONSE)
    ELSE LET candidate == api.candidates[1] IN
         IF candidate.finishReason = "SAFETY" THEN Throw(MSG_SAFETY)
         ELSE IF candidate.hasParts /\ FirstImage(candidate.parts) /= 0
         THEN Return(PNG_DATA_URL_PREFIX
                        \o candidate.parts[FirstImage(candidate.parts)].inlineData)
         ELSE IF candidate.hasParts /\ FirstText(candidate.parts) /= 0
         THEN Throw(TextFailure(candidate.parts[FirstText(candidate.parts)].text))
         ELSE Throw(MSG_EMPTY_RESPONSE)

\* the try block of generateChibiStyle once ai.models.generateContent has settled
ParseResponse(api) ==
    IF api.kind = "throw" THEN Throw(api.message)
    ELSE IF api.candidates = <<>> THEN Throw(MSG_EMPTY_RESPONSE)
    ELSE LET candidate == api.candidates[1] IN
         IF candidate.finishReason = "SAFETY" THEN Throw(MSG_SAFETY)
         ELSE IF candidate.hasParts /\ FirstImage(candidate.parts) /= 0
         THEN Return(PNG_DATA_URL_PREFIX
                        \o candidate.parts[FirstImage(candidate.parts)].inlineData)
         ELSE IF candidate.hasParts /\ FirstText(candidate.parts) /= 0
         THEN Throw(TextFailure(candidate.parts[FirstText(candidate.parts)].text))
         ELSE Throw(MSG_NO_DATA)

\* as NormalizeError, without the fallback for an error that has no message
NormalizeError_NoFallback(error) ==
    IF /\ Truthy(error.value)
       /\ \/ Includes(error.value, TOKEN_GEN_FAILED)
          \/ Includes(error.value, TOKEN_SAFETY_POLICY)
    THEN error
    ELSE Throw(error.value)

\* the catch block of generateChibiStyle
NormalizeError(error) ==
    IF /\ Truthy(error.value)
       /\ \/ Includes(error.value, TOKEN_GEN_FAILED)
          \/ Includes(error.value, TOKEN_SAFETY_POLICY)
    THEN error
    ELSE Throw(IF Truthy(error.value) THEN error.value ELSE MSG_UNAVAILABLE)

\* generateChibiStyle(contentImage, styleImage, customPrompt), the API call
\* ending as api
generateChibiStyle(content, style, customPrompt, api) ==
    IF ~getClient.ok THEN getClient
    ELSE LET r == ParseResponse(api) IN
         IF r.ok THEN r ELSE NormalizeError(r)

\* Ways the call of ai.models.generateContent may end
Candidate(finishReason, hasParts, parts) ==
    [finishReason |-> finishReason, hasParts |-> hasParts, parts |-> parts]
Response(candidates) == [kind |-> "response", candidates |-> candidates, message |-> <<>>]
ApiThrows(message) == [kind |-> "throw", candidates |-> <<>>, message |-> message]

ApiOutcomes ==
    { \* an image; an image after a text; a text after an image; two images
      Response(<<Candidate("STOP", TRUE, <<ImagePart(<<"R1">>)>>)>>),
      Response(<<Candidate("STOP", TRUE,
                           <<TextPart(<<"h", "i">>), ImagePart(<<"R2">>)>>)>>),
      Response(<<Candidate("STOP", TRUE,
                           <<ImagePart(<<"R1">>), TextPart(<<"h", "i">>)>>)>>),
      Response(<<Candidate("STOP", TRUE, <<ImagePart(<<"R1">>), ImagePart(<<"R2">>)>>)>>),
      \* an inline part without data before an image
      Response(<<Candidate("STOP", TRUE, <<ImagePart(<<>>), ImagePart(<<"R2">>)>>)>>),
      \* safety refusals: without parts, with an image, with a text
      Response(<<Candidate("SAFETY", FALSE, <<>>)>>),
      Response(<<Candidate("SAFETY", TRUE, <<ImagePart(<<"R1">>)>>)>>),
      Response(<<Candidate("SAFETY", TRUE, <<TextPart(<<"n", "o">>)>>)>>),
      \* texts instead of an image: padded, code fence only, blank, punctuation
      \* only, a fenced word, an empty text, an empty text before a text
      Response(<<Candidate("STOP", TRUE, <<TextPart(<<" ", "n", "o", " ">>)>>)>>),
      Response(<<Candidate("STOP", TRUE, <<TextPart(<<BACKTICK, BACKTICK, BACKTICK>>)>>)>>),
      Response(<<Candidate("STOP", TRUE, <<TextPart(<<" ", "\n">>)>>)>>),
      Response(<<Candidate("STOP", TRUE, <<TextPart(<<".", ".", ".">>)>>)>>),
      Response(<<Candidate("STOP", TRUE, <<TextPart(<<BACKTICK, "n", "o", BACKTICK>>)>>)>>),
      Response(<<Candidate("STOP", TRUE, <<TextPart(<<>>)>>)>>),
      Response(<<Candidate("STOP", TRUE, <<TextPart(<<>>), TextPart(<<"n", "o">>)>>)>>),
      \* no content, no parts, one inline part without data, no candidate
      Response(<<Candidate("STOP", FALSE, <<>>)>>),
      Response(<<Candidate("STOP", TRUE, <<>>)>>),
      Response(<<Candidate("STOP", TRUE, <<ImagePart(<<>>)>>)>>),
      Response(<<>>),
      \* only the first candidate counts
      Response(<<Candidate("STOP", TRUE, <<TextPart(<<"n", "o">>)>>),
                 Candidate("STOP", TRUE, <<ImagePart(<<"R2">>)>>)>>),
      \* the call rejects: with a message, without one
      ApiThrows(<<"network error">>),
      ApiThrows(<<>>) }

\* the ways the UI Controller is driven with: an image, a safety refusal and a
\* transport failure without message
UiApiOutcomes ==
    { Response(<<Candidate("STOP", TRUE, <<ImagePart(<<"R1">>)>>)>>),
      Response(<<Candidate("SAFETY", FALSE, <<>>)>>),
      ApiThrows(<<>>) }

\* no call of the adapter from outside the UI Controller, and its promise
NoCall == [contentImage |-> Null, styleImage |-> Null, customPrompt |-> <<>>]
Pending == [ok |-> FALSE, value |-> Null]
NoResponse == [kind |-> "none", candidates |-> <<>>, message |-> <<>>]

\* no file saved by the download link yet
NoDownload == [href |-> Null, download |-> ""]

----------------------------------------------------------------------------
(* Initial state: the component as mounted (useState initial values) *)

Init ==
    /\ variant \in {"readonly", "editable"}
    /\ apiKey \in {Null, <<"key">>}
    /\ status = IDLE
    /\ contentImage = Null
    /\ styleImage = Null
    /\ resultImage = Null
    /\ errorMsg = Null
    /\ prompt = PROMPT_SINGLE
    /\ readers = EmptyBag
    /\ inflight = EmptyBag
    /\ edited = FALSE
    /\ awaitFresh = FALSE
    /\ saved = NoDownload
    /\ call = NoCall
    /\ pc = "idle"
    /\ wire = <<>>
    /\ response = NoResponse
    /\ outcome = Pending

\* An async continuation of handleGenerate is already queued as a microtask
\* (the adapter threw before its first await): it runs before any other event.
MicrotaskPending == \E req \in BagToSet(inflight) : req.rejected

----------------------------------------------------------------------------
(* handleFileChange *)

\* as InvalidType, the prefix checked being 'image' without the slash
InvalidType_NoSlash(file) == ~StartsWith(file.type, SubSeq(IMAGE_PREFIX, 1, 5))

\* file.type.startsWith('image/') fails
InvalidType(file) == ~StartsWith(file.type, IMAGE_PREFIX)

\* as TooLarge, with >= for >
TooLarge_Inclusive(file) == file.size >= MAX_FILE_SIZE

\* file.size > 5 * 1024 * 1024
TooLarge(file) == file.size > MAX_FILE_SIZE

\* setErrorMsg(message); return
RejectFile(message) ==
    /\ errorMsg' = message
    /\ UNCHANGED <<adapterVars, saved, variant, apiKey, status, contentImage,
                   styleImage, resultImage, prompt, readers, inflight, edited,
                   awaitFresh>>

\* as AcceptFile, also calling setStatus(AppStatus.UPLOADING)
AcceptFile_Uploading(file, type) ==
    /\ BagCardinality(readers) < MaxReaders
    /\ errorMsg' = Null
    /\ status' = UPLOADING
    /\ resultImage' = IF type = "content" THEN Null ELSE resultImage
    /\ readers' = BagAdd(readers, [type |-> type, result |-> ReadAsDataURL(file)])
    /\ awaitFresh' = IF type = "content" THEN TRUE ELSE awaitFresh
    /\ UNCHANGED <<adapterVars, saved, variant, apiKey, contentImage,
                   styleImage, prompt, inflight, edited>>

\* a valid file: reset the error, clear the result of a content file, start the read
AcceptFile(file, type) ==
    /\ BagCardinality(readers) < MaxReaders
    /\ errorMsg' = Null
    /\ resultImage' = IF type = "content" THEN Null ELSE resultImage
    /\ readers' = BagAdd(readers, [type |-> type, result |-> ReadAsDataURL(file)])
    /\ awaitFresh' = IF type = "content" THEN TRUE ELSE awaitFresh
    /\ UNCHANGED <<adapterVars, saved, variant, apiKey, status, contentImage,
                   styleImage, prompt, inflight, edited>>

\* handleFileChange(event, type) for a picked file
handleFileChange(file, type) ==
    IF InvalidType(file) THEN RejectFile(MSG_INVALID_TYPE)
    ELSE IF TooLarge(file) THEN RejectFile(MSG_TOO_LARGE)
    ELSE AcceptFile(file, type)

\* the stored image of a role
StoredImage(type) == IF type = "content" THEN contentImage ELSE styleImage

\* The upload area opens the file picker only while its image is empty
\* (onClick={() => !styleImage && styleInputRef.current?.click()}).
SelectFile(type) ==
    /\ ~MicrotaskPending
    /\ ~Truthy(StoredImage(type))
    /\ \E file \in Files : handleFileChange(file, type)

\* reader.onloadend with reader.result = result
onloadend(type, result) ==
    IF type = "content"
    THEN /\ contentImage' = result
         /\ UNCHANGED <<styleImage, prompt>>
    ELSE /\ styleImage' = result
         /\ prompt' = IF prompt = PROMPT_SINGLE THEN PROMPT_WITH_STYLE ELSE prompt
         /\ UNCHANGED contentImage

\* A read ends successfully: load, then loadend
ReadLoaded(reader) ==
    /\ ~MicrotaskPending
    /\ BagIn(reader, readers)
    /\ onloadend(reader.type, reader.result)
    /\ readers' = BagRemove(readers, reader)
    /\ UNCHANGED <<adapterVars, saved, variant, apiKey, status, resultImage,
                   errorMsg, inflight, edited, awaitFresh>>

\* A read fails: error (reader.onerror), then loadend with reader.result = null
ReadFailed(reader) ==
    /\ ~MicrotaskPending
    /\ BagIn(reader, readers)
    /\ errorMsg' = MSG_READ_FAILED
    /\ onloadend(reader.type, Null)
    /\ readers' = BagRemove(readers, reader)
    /\ UNCHANGED <<adapterVars, saved, variant, apiKey, status, resultImage,
                   inflight, edited, awaitFresh>>

----------------------------------------------------------------------------
(* handleGenerate *)

\* const currentPrompt = styleImage ? PROMPT_WITH_STYLE : PROMPT_SINGLE
currentPrompt == IF Truthy(styleImage) THEN PROMPT_WITH_STYLE ELSE PROMPT_SINGLE

\* as PromptPassed, the read-only variant passing the prompt state cell too
PromptPassed_FromState == prompt

\* the prompt handleGenerate hands to the adapter: recomputed in the read-only
\* variant, the prompt state cell in the editable variant
PromptPassed == IF variant = "readonly" THEN currentPrompt ELSE prompt

\* the call of generateChibiStyle that handleGenerate awaits
NewRequest ==
    [contentImage |-> contentImage, styleImage |-> styleImage,
     customPrompt |-> PromptPassed,
     rejected |-> ~getClient.ok]

\* as handleGenerate, without the check for a content image
handleGenerate_NoValidation ==
    /\ BagCardinality(inflight) < MaxInFlight
    /\ status' = GENERATING
    /\ errorMsg' = Null
    /\ prompt' = IF variant = "readonly" THEN currentPrompt ELSE prompt
    /\ inflight' = BagAdd(inflight, NewRequest)
    /\ awaitFresh' = FALSE
    /\ UNCHANGED <<adapterVars, saved, variant, apiKey, contentImage,
                   styleImage, resultImage, readers, edited>>

\* handleGenerate up to its await
handleGenerate ==
    IF ~Truthy(contentImage)
    THEN /\ errorMsg' = MSG_NO_CONTENT
         /\ UNCHANGED <<adapterVars, saved, variant, apiKey, status,
                        contentImage, styleImage, resultImage, prompt, readers,
                        inflight, edited, awaitFresh>>
    ELSE /\ BagCardinality(inflight) < MaxInFlight
         /\ status' = GENERATING
         /\ errorMsg' = Null
         /\ prompt' = IF variant = "readonly" THEN currentPrompt ELSE prompt
         /\ inflight' = BagAdd(inflight, NewRequest)
         /\ awaitFresh' = FALSE
         /\ UNCHANGED <<adapterVars, saved, variant, apiKey, contentImage,
                        styleImage, resultImage, readers, edited>>

\* disabled={!contentImage || status === AppStatus.GENERATING}
GenerateDisabled == ~Truthy(contentImage) \/ status = GENERATING

\* a click on the generate button
ClickGenerate ==
    /\ ~MicrotaskPending
    /\ ~GenerateDisabled
    /\ handleGenerate

\* as SettledStatus, the catch not calling setStatus
SettledStatus_NoError(out) == IF out.ok THEN SUCCESS ELSE status

\* setStatus(AppStatus.SUCCESS) in the try, setStatus(AppStatus.ERROR) in the catch
SettledStatus(out) == IF out.ok THEN SUCCESS ELSE ERROR

\* handleGenerate after its await: the try's tail or the catch
GenerationSettled(req) ==
    /\ BagIn(req, inflight)
    /\ MicrotaskPending => req.rejected
    /\ \E api \in UiApiOutcomes :
          LET out == generateChibiStyle(req.contentImage, req.styleImage,
                                        req.customPrompt, api)
          IN IF out.ok
             THEN /\ resultImage' = out.value
                  /\ status' = SettledStatus(out)
                  /\ UNCHANGED errorMsg
             ELSE /\ errorMsg' = IF Truthy(out.value) THEN out.value
                                 ELSE MSG_GENERATE_FALLBACK
                  /\ status' = SettledStatus(out)
                  /\ UNCHANGED resultImage
    /\ inflight' = BagRemove(inflight, req)
    /\ UNCHANGED <<adapterVars, saved, variant, apiKey, contentImage,
                   styleImage, prompt, readers, edited, awaitFresh>>

----------------------------------------------------------------------------
(* clearImage *)

\* as clearImage, the content branch not calling setResultImage(null)
clearImage_KeepsResult(type) ==
    /\ IF type = "content"
       THEN /\ contentImage' = Null
            /\ UNCHANGED <<resultImage, styleImage, prompt>>
       ELSE /\ styleImage' = Null
            /\ prompt' = IF prompt = PROMPT_WITH_STYLE THEN PROMPT_SINGLE ELSE prompt
            /\ UNCHANGED <<contentImage, resultImage>>
    /\ status' = IDLE
    /\ UNCHANGED <<adapterVars, saved, variant, apiKey, errorMsg, readers,
                   inflight, edited, awaitFresh>>

\* as clearImage, the style branch resetting the prompt whatever it holds
clearImage_ResetsPrompt(type) ==
    /\ IF type = "content"
       THEN /\ contentImage' = Null
            /\ resultImage' = Null
            /\ UNCHANGED <<styleImage, prompt>>
       ELSE /\ styleImage' = Null
            /\ prompt' = PROMPT_SINGLE
            /\ UNCHANGED <<contentImage, resultImage>>
    /\ status' = IDLE
    /\ UNCHANGED <<adapterVars, saved, variant, apiKey, errorMsg, readers,
                   inflight, edited, awaitFresh>>

clearImage(type) ==
    /\ IF type = "content"
       THEN /\ contentImage' = Null
            /\ resultImage' = Null
            /\ UNCHANGED <<styleImage, prompt>>
       ELSE /\ styleImage' = Null
            /\ prompt' = IF prompt = PROMPT_WITH_STYLE THEN PROMPT_SINGLE ELSE prompt
            /\ UNCHANGED <<contentImage, resultImage>>
    /\ status' = IDLE
    /\ UNCHANGED <<adapterVars, saved, variant, apiKey, errorMsg, readers,
                   inflight, edited, awaitFresh>>

\* the clear button of a role is rendered only while its image is shown
ClickClear(type) ==
    /\ ~MicrotaskPending
    /\ Truthy(StoredImage(type))
    /\ clearImage(type)

----------------------------------------------------------------------------
(* handleDownload *)

\* as handleDownload, without the early return
handleDownload_NoGuard ==
    /\ saved' = [href |-> resultImage, download |-> DOWNLOAD_NAME]
    /\ UNCHANGED <<adapterVars, variant, apiKey, status, contentImage,
                   styleImage, resultImage, errorMsg, prompt, readers,
                   inflight, edited, awaitFresh>>

\* if (!resultImage) return; otherwise a link with href = resultImage and
\* download = 'chibi-style.png' is clicked
handleDownload ==
    IF ~Truthy(resultImage)
    THEN UNCHANGED vars
    ELSE /\ saved' = [href |-> resultImage, download |-> DOWNLOAD_NAME]
         /\ UNCHANGED <<adapterVars, variant, apiKey, status, contentImage,
                        styleImage, resultImage, errorMsg, prompt, readers,
                        inflight, edited, awaitFresh>>

\* the download button is rendered only while a result is shown
ClickDownload ==
    /\ ~MicrotaskPending
    /\ Truthy(resultImage)
    /\ handleDownload

----------------------------------------------------------------------------
(* the prompt textarea: onChange={(e) => setPrompt(e.target.value)} *)

\* what the user may type: the with-style text by hand, or a text of their own
PromptInputs == {PROMPT_WITH_STYLE, PROMPT_CUSTOM}

\* readOnly={true} in the read-only variant: no change event
EditPrompt(value) ==
    /\ ~MicrotaskPending
    /\ variant = "editable"
    /\ value /= prompt
    /\ prompt' = value
    /\ edited' = TRUE
    /\ UNCHANGED <<adapterVars, saved, variant, apiKey, status, contentImage,
                   styleImage, resultImage, errorMsg, readers, inflight,
                   awaitFresh>>

----------------------------------------------------------------------------
(* Specifications *)

SelectAny == \E type \in ImageRoles : SelectFile(type)
ReadLoadedAny == \E reader \in BagToSet(readers) : ReadLoaded(reader)
ReadFailedAny == \E reader \in BagToSet(readers) : ReadFailed(reader)
SettleAny == \E req \in BagToSet(inflight) : GenerationSettled(req)
ClearAny == \E type \in ImageRoles : ClickClear(type)
EditAny == \E value \in PromptInputs : EditPrompt(value)

Next ==
    \/ SelectAny
    \/ ReadLoadedAny
    \/ ReadFailedAny
    \/ ClickGenerate
    \/ SettleAny
    \/ ClearAny
    \/ EditAny

\* the application driven through the controls that change its state cells
\* (the download link changes none: it is driven in HandlerSpec)
Spec == Init /\ [][Next]_vars

\* the same, every started request eventually settling (the adapter call
\* returns or fails) and every started read eventually ending
FairSpec == Spec /\ WF_vars(SettleAny)

\* handleGenerate called directly, whatever the button's disabled state
CallGenerate == ~MicrotaskPending /\ handleGenerate

\* handleDownload called directly, whether or not the button is rendered
CallDownload == ~MicrotaskPending /\ handleDownload

\* the rendered controls, the download link among them, and the two handlers
\* called directly
NextHandlers == Next \/ ClickDownload \/ CallGenerate \/ CallDownload

HandlerSpec == Init /\ [][NextHandlers]_vars

----------------------------------------------------------------------------
(* The Generation Adapter called on its own *)

\* data-URLs and raw strings passed as images: a PNG data-URL, one with an
\* empty payload, one whose payload holds a comma, a JPEG data-URL, a string
\* without comma
ContentInputs ==
    { PNG_DATA_URL_PREFIX \o <<"AAAA">>,
      PNG_DATA_URL_PREFIX,
      PNG_DATA_URL_PREFIX \o <<"AA", ",", "BB">>,
      <<"data:image/jpeg;base64", ",", "JJJJ">>,
      <<"AAAA">> }

StyleInputs == { Null, PNG_DATA_URL_PREFIX \o <<"SSSS">>, <<"SSSS">> }

PromptArgs == { PROMPT_SINGLE, PROMPT_WITH_STYLE, PROMPT_CUSTOM }

\* a caller has just called generateChibiStyle with arguments of these sets
AdapterInit ==
    /\ variant = "readonly"
    /\ apiKey \in {Null, <<"key">>}
    /\ status = IDLE
    /\ contentImage = Null
    /\ styleImage = Null
    /\ resultImage = Null
    /\ errorMsg = Null
    /\ prompt = PROMPT_SINGLE
    /\ readers = EmptyBag
    /\ inflight = EmptyBag
    /\ edited = FALSE
    /\ awaitFresh = FALSE
    /\ saved = NoDownload
    /\ call \in [contentImage : ContentInputs, styleImage : StyleInputs,
                 customPrompt : PromptArgs]
    /\ pc = "called"
    /\ wire = <<>>
    /\ response = NoResponse
    /\ outcome = Pending

\* generateChibiStyle up to its await: getClient() throws, or the parts are
\* built and handed to ai.models.generateContent
AdapterEnter ==
    /\ pc = "called"
    /\ IF ~getClient.ok
       THEN /\ pc' = "done"
            /\ outcome' = getClient
            /\ UNCHANGED wire
       ELSE /\ pc' = "awaiting"
            /\ wire' = RequestParts(call.contentImage, call.styleImage,
                                    call.customPrompt)
            /\ UNCHANGED outcome
    /\ UNCHANGED <<call, response, apiKey, uiVars>>

\* generateChibiStyle after its await, the API call having ended as api
AdapterResume(api) ==
    /\ pc = "awaiting"
    /\ pc' = "done"
    /\ response' = api
    /\ outcome' = generateChibiStyle(call.contentImage, call.styleImage,
                                     call.customPrompt, api)
    /\ UNCHANGED <<call, wire, apiKey, uiVars>>

AdapterResumeAny == \E api \in ApiOutcomes : AdapterResume(api)

AdapterNext == AdapterEnter \/ AdapterResumeAny

AdapterSpec == AdapterInit /\ [][AdapterNext]_vars

----------------------------------------------------------------------------
(* Properties *)

\* the number of generateChibiStyle calls outstanding
Outstanding == BagCardinality(inflight)

\* a call of generateChibiStyle starts / settles in the step
RequestStarts == BagCardinality(inflight') > BagCardinality(inflight)
RequestSettles == BagCardinality(inflight') < BagCardinality(inflight)

\* the fixed prompt variant that matches the presence of a style image
VariantFor(style) == IF Truthy(style) THEN PROMPT_WITH_STYLE ELSE PROMPT_SINGLE

\* the stored state file intake must leave alone when it rejects a file
Stored == <<contentImage, styleImage, resultImage, prompt, status, readers>>

\* the files whose type does not start with image/, and those whose type does
NonImageFiles ==
    [type : {TYPE_TEXT, TYPE_IMAGE_NO_SLASH}, size : FileSizes, payload : FilePayloads]
ImageFiles == [type : {TYPE_PNG}, size : FileSizes, payload : FilePayloads]

\* C1: in every reachable state at most one generation request is in flight.
C1_AtMostOneInFlight == Outstanding <= 1

C3_ReadonlyPromptMatchesStyle ==
    [][(variant = "readonly" /\ Truthy(contentImage) /\ handleGenerate) =>
          \E req \in BagToSet(inflight') :
              /\ CopiesIn(req, inflight') > CopiesIn(req, inflight)
              /\ req.contentImage = contentImage
              /\ req.styleImage = styleImage
              /\ req.customPrompt = VariantFor(styleImage)]_vars

\* C3 witness: the prompt state cell disagrees with the style image and the
\* generate action passes the recomputed prompt
C3_StaleCellReached ==
    /\ variant = "readonly"
    /\ prompt /= VariantFor(styleImage)
    /\ ENABLED (ClickGenerate /\ \E req \in BagToSet(inflight') :
                                    /\ ~BagIn(req, inflight)
                                    /\ req.customPrompt = VariantFor(styleImage))

\* C4: in the editable variant, the user never having edited the prompt, the
\* prompt a generate action passes is the with-style variant iff the stored
\* style image is non-null.
C4_UneditedPromptMatchesStyle ==
    (variant = "editable" /\ ~edited) =>
        \A req \in BagToSet(inflight) : req.customPrompt = VariantFor(req.styleImage)

\* C5: every started request eventually settles, and as it settles the status
\* becomes success with the returned image stored or error with the message
\* stored; the application is never stuck in generating.
C5_RequestsComplete ==
    /\ [][RequestSettles =>
            \/ status' = SUCCESS /\ StartsWith(resultImage', PNG_DATA_URL_PREFIX)
            \/ status' = ERROR /\ Truthy(errorMsg')]_vars
    /\ (status = GENERATING \/ inflight /= EmptyBag) ~> (status \in {SUCCESS, ERROR})

\* C5 witness: a request has settled in error with the adapter's message stored
C5_SettledInErrorReached ==
    status = ERROR /\ errorMsg = MSG_SAFETY /\ inflight = EmptyBag

\* C6: a generate action with no content image stored sets the validation
\* message, leaves status and result unchanged and calls no adapter.
C6_NoContentNoCall ==
    [][(~Truthy(contentImage) /\ CallGenerate) =>
          /\ errorMsg' = MSG_NO_CONTENT
          /\ UNCHANGED <<status, resultImage, inflight>>]_vars

\* C6 witness: the validation message is displayed
C6_ValidationMessageReached ==
    errorMsg = MSG_NO_CONTENT /\ ~Truthy(contentImage) /\ inflight = EmptyBag

\* C7: for a file whose type does not start with image/, file intake for
\* either role sets the type error, starts no read and leaves the content
\* image, style image, result, prompt and status unchanged.
C7_InvalidTypeRejected ==
    [][\A type \in ImageRoles : \A file \in NonImageFiles :
          handleFileChange(file, type) =>
              (errorMsg' = MSG_INVALID_TYPE /\ UNCHANGED Stored)]_vars

\* C7 witness: the type error is displayed
C7_TypeErrorReached == errorMsg = MSG_INVALID_TYPE

\* C8: for an image-typed file, file intake rejects with the size error and
\* leaves the stored state unchanged exactly when the size exceeds
\* 5*1024*1024; a file of exactly that size is read.
C8_SizeLimit ==
    [][\A type \in ImageRoles : \A file \in ImageFiles :
          handleFileChange(file, type) =>
              IF file.size > 5 * 1024 * 1024
              THEN errorMsg' = MSG_TOO_LARGE /\ UNCHANGED Stored
              ELSE /\ errorMsg' = Null
                   /\ BagCardinality(readers') = BagCardinality(readers) + 1
                   /\ BagIn([type |-> type, result |-> ReadAsDataURL(file)], readers')]_vars

\* C8 witness: the size error is displayed
C8_SizeErrorReached == errorMsg = MSG_TOO_LARGE

\* C9: clearImage('content') while a result is displayed leaves the content
\* image null, the result null and the status idle.
C9_ClearContentClearsResult ==
    [][(Truthy(resultImage) /\ clearImage("content")) =>
          (contentImage' = Null /\ resultImage' = Null /\ status' = IDLE)]_vars

\* C9 witness: a result is displayed and the clear button of the content image
\* acts, leaving no content image, no result and status idle
C9_ClearWithResultReached ==
    /\ Truthy(resultImage)
    /\ status = SUCCESS
    /\ ENABLED (ClickClear("content") /\ contentImage' = Null
                   /\ resultImage' = Null /\ status' = IDLE)

\* C10: after a valid content-file selection the result is null and stays null
\* until a generation started after that selection succeeds; so it is null for
\* as long as no generation has been started since the selection.
C10_ResultNullUntilFreshSuccess == awaitFresh => resultImage = Null

----------------------------------------------------------------------------
(* Properties of the Generation Adapter *)

\* the call has handed its request to ai.models.generateContent
RequestOnWire == pc \in {"awaiting", "done"} /\ getClient.ok

\* the API call has ended with a response that has a first candidate
Answered == pc = "done" /\ response.kind = "response" /\ response.candidates /= <<>>
FirstCandidate == response.candidates[1]

\* the first candidate is no safety refusal and carries content parts
ScannedParts ==
    /\ Answered
    /\ FirstCandidate.finishReason /= "SAFETY"
    /\ FirstCandidate.hasParts

\* some part carries inline image data / a non-empty text
HasImage(parts) == \E i \in DOMAIN parts : Truthy(parts[i].inlineData)
HasText(parts) == \E i \in DOMAIN parts : Truthy(parts[i].text)

\* C11: the request sent is the ordered list <<style image part, content image
\* part, text prompt>> when a style image is given (three parts) and <<content
\* image part, text prompt>> when none is given (two parts).
C11_OrderedParts ==
    RequestOnWire =>
        IF call.styleImage /= Null
        THEN wire = << ImagePart(stripBase64Prefix(call.styleImage)),
                       ImagePart(stripBase64Prefix(call.contentImage)),
                       TextPart(call.customPrompt) >>
        ELSE wire = << ImagePart(stripBase64Prefix(call.contentImage)),
                       TextPart(call.customPrompt) >>

\* C11 witness: a request of three parts is on the wire, the style image and
\* the content image differing
C11_ThreePartsSent ==
    /\ pc = "awaiting"
    /\ call.styleImage /= Null
    /\ Len(wire) = 3
    /\ wire[1] /= wire[2]
    /\ wire[3].text = call.customPrompt

\* C12: when the first candidate is no safety refusal and its parts hold an
\* inline image with data, the call returns data:image/png;base64, followed by
\* the data of the first such part, whatever texts stand before or after it.
C12_FirstImageWins ==
    (ScannedParts /\ HasImage(FirstCandidate.parts)) =>
        LET parts == FirstCandidate.parts
            i == CHOOSE k \in DOMAIN parts :
                     /\ Truthy(parts[k].inlineData)
                     /\ \A j \in 1..(k - 1) : ~Truthy(parts[j].inlineData)
        IN outcome = Return(PNG_DATA_URL_PREFIX \o parts[i].inlineData)

\* C12 witness: the response held a text before its image and the call
\* returned the image
C12_ImageAfterTextReturned ==
    /\ ScannedParts
    /\ Len(FirstCandidate.parts) = 2
    /\ Truthy(FirstCandidate.parts[1].text)
    /\ outcome = Return(PNG_DATA_URL_PREFIX \o FirstCandidate.parts[2].inlineData)

\* C13: when the first candidate has the safety finish reason the call fails
\* with the safety message, with or without content parts, and that message
\* is none of the empty-response, generation-failed and no-data messages.
C13_SafetyMessage ==
    /\ (Answered /\ FirstCandidate.finishReason = "SAFETY") =>
            outcome = Throw(MSG_SAFETY)
    /\ MSG_SAFETY \notin {MSG_EMPTY_RESPONSE, MSG_NO_DATA, MSG_UNAVAILABLE}
    /\ ~Includes(MSG_SAFETY, TOKEN_GEN_FAILED)

\* C13 witness: a safety refusal that carried an image ended in the safety
\* message
C13_SafetyWithPartsRefused ==
    /\ Answered
    /\ FirstCandidate.finishReason = "SAFETY"
    /\ FirstCandidate.hasParts
    /\ HasImage(FirstCandidate.parts)
    /\ outcome = Throw(MSG_SAFETY)

\* the text of the first part that has a non-empty text
FoundText == FirstCandidate.parts[FirstText(FirstCandidate.parts)].text

\* a text of punctuation and code-fence markers only (the empty text included)
PunctuationMarks == {BACKTICK, ".", "!", "?"}
OnlyPunctuation(text) == \A i \in DOMAIN text : text[i] \in PunctuationMarks

\* a text that leaves nothing once backticks and white space are removed
OnlyFences(text) == \A i \in DOMAIN text : text[i] \in Whitespace \cup {BACKTICK}

\* C14 (as claimed): the first candidate being no safety refusal and holding
\* no inline image but a text part, the call fails with the generation-failed
\* reason of one of its text parts: the generic likely-filtered message if
\* that text (white space aside) is empty or punctuation and code-fence
\* markers only, the text itself otherwise.
C14_TextFailureAsClaimed ==
    (/\ ScannedParts
     /\ ~HasImage(FirstCandidate.parts)
     /\ \E i \in DOMAIN FirstCandidate.parts : FirstCandidate.parts[i].text /= Null) =>
        \E i \in DOMAIN FirstCandidate.parts :
            LET text == FirstCandidate.parts[i].text IN
            /\ text /= Null
            /\ outcome = Throw(<<TOKEN_GEN_FAILED, ": ">> \o
                                 (IF OnlyPunctuation(Trim(text))
                                  THEN MSG_LIKELY_FILTERED ELSE Trim(text)))

\* C14 (amended): the first candidate being no safety refusal and holding no
\* inline image but a part with a non-empty text, the call fails with the
\* generation-failed reason built from the first such text: the generic
\* likely-filtered message if the text is backticks and white space only, the
\* text with its surrounding white space trimmed otherwise (punctuation is
\* surfaced as it is). Parts whose text is empty do not count as text: with
\* no other text the call fails with the no-data message.
C14_TextFailure ==
    (ScannedParts /\ ~HasImage(FirstCandidate.parts)) =>
        IF HasText(FirstCandidate.parts)
        THEN outcome = Throw(<<TOKEN_GEN_FAILED, ": ">> \o
                                (IF OnlyFences(FoundText)
                                 THEN MSG_LIKELY_FILTERED ELSE Trim(FoundText)))
        ELSE outcome = Throw(MSG_NO_DATA)

\* C14 witness: a text of punctuation only was surfaced in the reason
C14_PunctuationSurfaced ==
    /\ ScannedParts
    /\ ~HasImage(FirstCandidate.parts)
    /\ HasText(FirstCandidate.parts)
    /\ OnlyPunctuation(FoundText)
    /\ ~OnlyFences(FoundText)
    /\ outcome = Throw(<<TOKEN_GEN_FAILED, ": ">> \o FoundText)

\* the message of a failed call carries one of the two markers of a domain
\* failure
DomainFailure == Includes(outcome.value, TOKEN_GEN_FAILED)
                     \/ Includes(outcome.value, TOKEN_SAFETY_POLICY)

\* C15 (as claimed): every failure carries a non-empty message, and a failure
\* that is neither a safety refusal nor a generation failure carries the
\* generic service-unavailable message.
C15_OthersWrappedAsClaimed ==
    (pc = "done" /\ ~outcome.ok) =>
        /\ Truthy(outcome.value)
        /\ ~DomainFailure => outcome.value = MSG_UNAVAILABLE

\* C15 (amended): every failure carries a non-empty message: the safety
\* message for a safety refusal, a generation-failed message for a text
\* instead of an image; every other exception keeps its own message (empty
\* response, no data, the message of a transport error) and only one without
\* message gets the service-unavailable fallback; the missing-credential
\* error is thrown before the try block and reaches the caller as it is.
C15_FailureMessages ==
    (pc = "done" /\ ~outcome.ok) =>
        /\ Truthy(outcome.value)
        /\ response.kind = "none" => outcome.value = MSG_API_KEY_MISSING
        /\ response.kind = "throw" =>
               outcome.value = IF response.message = <<>> THEN MSG_UNAVAILABLE
                               ELSE response.message
        /\ (response.kind = "response" /\ response.candidates = <<>>) =>
               outcome.value = MSG_EMPTY_RESPONSE
        /\ Answered =>
               IF FirstCandidate.finishReason = "SAFETY"
               THEN outcome.value = MSG_SAFETY
               ELSE IF FirstCandidate.hasParts /\ HasText(FirstCandidate.parts)
               THEN SubSeq(outcome.value, 1, 2) = <<TOKEN_GEN_FAILED, ": ">>
               ELSE outcome.value = MSG_NO_DATA

\* C15 witness: a transport error without message reached the caller with the
\* fallback message
C15_FallbackReached ==
    /\ pc = "done"
    /\ response = ApiThrows(<<>>)
    /\ outcome = Throw(MSG_UNAVAILABLE)

\* the data of the content image part on the wire (the part before the text)
ContentDataSent == wire[Len(wire) - 1].inlineData

\* C17: for a content image data:image/png;base64, followed by a payload (the
\* empty payload included), the data sent, prefixed again with
\* data:image/png;base64, is the image passed.
C17_RoundTrip ==
    (RequestOnWire /\ StartsWith(call.contentImage, PNG_DATA_URL_PREFIX)) =>
        PNG_DATA_URL_PREFIX \o ContentDataSent = call.contentImage

\* what follows the first comma of s
AfterFirstComma(s) == SubSeq(s, IndexOf(s, ",") + 1, Len(s))

\* C20: the data sent for an image that holds a comma is all that follows the
\* first comma (also when that is empty or holds commas), and for an image
\* without comma the image as it is.
C20_SplitOnFirstComma ==
    RequestOnWire =>
        ContentDataSent = IF IndexOf(call.contentImage, ",") /= 0
                          THEN AfterFirstComma(call.contentImage)
                          ELSE call.contentImage

----------------------------------------------------------------------------
(* Further properties of the UI Controller *)

\* what a call of handleGenerate has handed to ai.models.generateContent:
\* nothing when getClient() threw
RequestSent(req) ==
    IF req.rejected THEN <<>>
    ELSE RequestParts(req.contentImage, req.styleImage, req.customPrompt)

\* C16: the API key being absent, no call of the adapter issues a network
\* request, and as each call settles the status becomes error with the
\* missing-credential message displayed.
C16_MissingCredential ==
    /\ [](apiKey = Null => \A req \in BagToSet(inflight) : RequestSent(req) = <<>>)
    /\ [][(apiKey = Null /\ RequestSettles) =>
              (status' = ERROR /\ errorMsg' = MSG_API_KEY_MISSING)]_vars

\* C16 witness: a generate action has ended in error on the missing key
C16_CredentialErrorShown ==
    /\ apiKey = Null
    /\ status = ERROR
    /\ errorMsg = MSG_API_KEY_MISSING
    /\ inflight = EmptyBag

\* C18: handleDownload does nothing when no result is stored; with a result
\* stored it saves that data-URL under the name chibi-style.png; either way
\* status, content image, style image, result, prompt and error message stay.
C18_DownloadSavesResult ==
    [][CallDownload =>
          /\ UNCHANGED <<status, contentImage, styleImage, resultImage, prompt,
                         errorMsg>>
          /\ IF resultImage = Null
             THEN UNCHANGED saved
             ELSE saved' = [href |-> resultImage, download |-> "chibi-style.png"]]_vars

\* C18 witness: the displayed result has been saved under the fixed name
C18_ResultSaved ==
    /\ Truthy(resultImage)
    /\ saved = [href |-> resultImage, download |-> "chibi-style.png"]

\* the read of a picked style file ends (reader.onloadend runs), loaded or not
StyleReadEnds ==
    \E reader \in BagToSet(readers) :
        reader.type = "style" /\ (ReadLoaded(reader) \/ ReadFailed(reader))

\* C19: in the editable variant, the end of the read of a picked style file
\* and clearImage('style') leave a prompt that is neither fixed variant
\* unchanged, and put a prompt never edited on the with-style variant and on
\* the single variant; a generate action passes the adapter the prompt held,
\* an edited one as it is.
C19_EditedPromptKept ==
    [][variant = "editable" =>
          /\ ((StyleReadEnds \/ clearImage("style") \/ styleImage' /= styleImage)
                 /\ prompt \notin {PROMPT_SINGLE, PROMPT_WITH_STYLE}) =>
                prompt' = prompt
          /\ (StyleReadEnds /\ ~edited) => prompt' = PROMPT_WITH_STYLE
          /\ (clearImage("style") /\ ~edited) => prompt' = PROMPT_SINGLE
          /\ (Truthy(contentImage) /\ handleGenerate) =>
                \E req \in BagToSet(inflight') :
                    /\ CopiesIn(req, inflight') > CopiesIn(req, inflight)
                    /\ req.customPrompt = prompt]_vars

\* C19 witness: an edited prompt is held next to a style image, has been
\* passed to the adapter, and clearing the style image leaves it
C19_EditedPromptPassed ==
    /\ variant = "editable"
    /\ prompt = PROMPT_CUSTOM
    /\ Truthy(styleImage)
    /\ \E req \in BagToSet(inflight) :
           req.customPrompt = PROMPT_CUSTOM /\ req.styleImage = styleImage
    /\ ENABLED (ClickClear("style") /\ prompt' = PROMPT_CUSTOM)

----------------------------------------------------------------------------
(* Remaining properties *)

\* C21: the first candidate being no safety refusal and holding neither an
\* inline image with data nor a text (its content parts missing, empty, or
\* without data and text), the call fails with the no-data message, which is
\* not the empty-response message of a response without candidate.
C21_NoDataMessage ==
    /\ (/\ Answered
         /\ FirstCandidate.finishReason /= "SAFETY"
         /\ \/ ~FirstCandidate.hasParts
            \/ \A i \in DOMAIN FirstCandidate.parts :
                   /\ FirstCandidate.parts[i].inlineData \in {Null, <<>>}
                   /\ FirstCandidate.parts[i].text \in {Null, <<>>}) =>
            outcome = Throw(MSG_NO_DATA)
    /\ (pc = "done" /\ response.kind = "response" /\ response.candidates = <<>>) =>
            outcome = Throw(MSG_EMPTY_RESPONSE)
    /\ MSG_NO_DATA /= MSG_EMPTY_RESPONSE

\* C21 witness: a candidate whose only part is an inline part without data
\* ended in the no-data message
C21_PartWithoutDataRefused ==
    /\ Answered
    /\ FirstCandidate.finishReason /= "SAFETY"
    /\ FirstCandidate.hasParts
    /\ Len(FirstCandidate.parts) = 1
    /\ FirstCandidate.parts[1].inlineData = <<>>
    /\ outcome = Throw(MSG_NO_DATA)

\* C22: the callbacks of a failed read (error, then load-end) set the
\* read-error message and leave the stored content image, the stored style
\* image and the prompt as they were.
C22_FailedReadChangesNothing ==
    [][ReadFailedAny =>
          /\ errorMsg' = MSG_READ_FAILED
          /\ UNCHANGED <<contentImage, styleImage, prompt>>]_vars

\* C23: the status is generating if and only if a generation request is in
\* flight.
C23_GeneratingIffInFlight == (status = GENERATING) <=> (Outstanding > 0)

\* C24: whenever a result image is stored a content image is stored too, and
\* the result does not stem from a request started before the content image
\* now selected was picked.
C24_ResultOfStoredContent ==
    Truthy(resultImage) => (Truthy(contentImage) /\ ~awaitFresh)

\* C25: status success implies a result image is stored, and status error
\* implies an error message is stored.
C25_StatusAgreesWithOutputs ==
    /\ status = SUCCESS => Truthy(resultImage)
    /\ status = ERROR => Truthy(errorMsg)

====
